---------------------------- MODULE Spec2Model ----------------------------
(***************************************************************************)
(* A model of libstd/io/buffered.rs: BufferedReader, BufferedWriter,       *)
(* LineBufferedWriter and BufferedStream, the decorators that add a        *)
(* fixed-capacity buffer to a byte source and/or sink.                     *)
(*                                                                         *)
(* Every method of the source is an operator from the receiver (a record   *)
(* holding the struct's fields) to the receiver after the call, written    *)
(* statement by statement as the Rust code.  One decorator exists per      *)
(* behaviour: `kind` says which, `obj` holds it, and every public call is  *)
(* one action.  `written`, `delivered`, `last` and `nops` are history      *)
(* variables: the slices the caller passed to write (one entry per call),  *)
(* the bytes the caller got from read/consume, the call that was made last *)
(* together with the receiver before it, and the number of calls made (on  *)
(* a BufferedReader, which has finitely many states whatever the number    *)
(* of calls: the number of consume calls given uint::max_value).           *)
(*                                                                         *)
(* The module also holds a model of test/run-pass/task-comm-9.rs, a test   *)
(* of tasks and channels: `tasks` holds the position and the locals of the *)
(* parent task and of the task it spawns, `chans` the messages in flight   *)
(* on the two channels of the test and the history of the first.           *)
(***************************************************************************)
EXTENDS Integers, Sequences, FiniteSets, TLC

VARIABLES kind, obj, life, written, delivered, last, nops, tasks, chans

vars == <<kind, obj, life, written, delivered, last, nops, tasks, chans>>

\* the variables of the decorators
bufvars == <<kind, obj, life, written, delivered, last, nops>>

(***************************************************************************)
(* Bounds of the model.                                                    *)
(***************************************************************************)
\* buffer capacities given to with_capacity: 0..MaxCap
MaxCap == 2
\* lengths of the slices given to BufferedWriter::write: 0..MaxLen
MaxLen == 3
\* number of write-side calls (write, flush) made on one decorator
MaxOps == 5
\* number of calls made on one LineBufferedWriter
MaxLineOps == 3
\* length of the short part of a slice given to LineBufferedWriter::write
MaxPre == 1
\* number of calls made on one BufferedStream
MaxStreamOps == 3
\* length of the byte sequence held by the source
MaxSrc == 4
\* lengths of the destination slices given to read: 0..MaxDest
MaxDest == 3
\* number of consume calls on one BufferedReader that are given
\* uint::max_value
MaxHuge == 1

(***************************************************************************)
(* Program constants.                                                      *)
(***************************************************************************)
\* '\n' as u8
NEWLINE == 10
\* BufferedWriter::with_capacity(1024, inner) in LineBufferedWriter::new
LINE_CAPACITY == 1024
\* u8
BYTE_MOD == 256
\* let number_of_messages: int = 10 in test00
NumberOfMessages == 10
\* uint::max_value.  A uint is a machine word and its arithmetic wraps.  A
\* word is written as an integer n: n >= 0 stands for the value n, n < 0 for
\* the value 2^w + n, w being the width of the word (two's complement), so
\* that wrapping addition is integer addition for any w.
UINT_MAX == -1

(***************************************************************************)
(* Slices.                                                                 *)
(***************************************************************************)
Min(a, b) == IF a <= b THEN a ELSE b

\* v.slice(a, b): the elements at the 0-based indices a .. b-1
slice(v, a, b) == SubSeq(v, a + 1, b)

\* v.slice_to(b)
slice_to(v, b) == slice(v, 0, b)

\* v.slice_from(a)
slice_from(v, a) == slice(v, a, Len(v))

\* vec::bytes::copy_memory(dst, src, count) where dst is the part of buf
\* that starts at the 0-based index at: buf after the copy
copy_memory(buf, at, src, count) ==
    [i \in 1..Len(buf) |->
        IF i > at /\ i <= at + count THEN src[i - at] ELSE buf[i]]

\* buf.iter().rposition(|&b| b == x): the 0-based index of the last x, or -1
rposition(v, x) ==
    LET hits == {i \in 1..Len(v) : v[i] = x}
    IN  IF hits = {} THEN -1
        ELSE (CHOOSE i \in hits : \A j \in hits : j <= i) - 1

\* a + b on uint
uint_add(a, b) == a + b

\* a <= b on uint
uint_le(a, b) == IF (a < 0) = (b < 0) THEN a <= b ELSE b < 0

\* Option<uint>
Some(n) == [some |-> TRUE, val |-> n]
None == [some |-> FALSE, val |-> 0]

(***************************************************************************)
(* The wrapped object: a byte source (the bytes it holds and how many it   *)
(* has produced), a byte sink (the calls it has received, in order), or    *)
(* both (a duplex stream).  reads holds the lengths asked for by the read  *)
(* calls the object received since the record was last cleared.            *)
(***************************************************************************)
Io(data) == [data |-> data, rpos |-> 0, calls |-> <<>>, reads |-> <<>>]

\* Source::read(buf) with buf.len() = n: the source after the call, the
\* result and the bytes put at the start of buf
Io_read(io, n) ==
    IF io.rpos = Len(io.data)
    THEN [inner |-> [io EXCEPT !.reads = Append(@, n)],
          ret   |-> None,
          bytes |-> <<>>]
    ELSE LET k == Min(n, Len(io.data) - io.rpos)
         IN  [inner |-> [io EXCEPT !.rpos = @ + k, !.reads = Append(@, n)],
              ret   |-> Some(k),
              bytes |-> slice(io.data, io.rpos, io.rpos + k)]

\* Source::eof()
Io_eof(io) == io.rpos = Len(io.data)

\* Sink::write(bytes)
Io_write(io, bytes) ==
    [io EXCEPT !.calls = Append(@, [op |-> "write", data |-> bytes])]

\* Sink::flush()
Io_flush(io) ==
    [io EXCEPT !.calls = Append(@, [op |-> "flush", data |-> <<>>])]

\* the bytes carried by a sequence of sink calls, in order
RECURSIVE CallBytes(_)
CallBytes(calls) ==
    IF calls = <<>> THEN <<>>
    ELSE CallBytes(SubSeq(calls, 1, Len(calls) - 1)) \o calls[Len(calls)].data

\* the bytes the sink has received (MemWriter's as_slice())
SinkBytes(io) == CallBytes(io.calls)

(***************************************************************************)
(* BufferedWriter<W> { inner, buf, pos }                                   *)
(***************************************************************************)
\* the buffer is allocated uninitialised: every cell holds whatever byte g
\* the allocation left there
BufferedWriter_with_capacity(cap, inner, g) ==
    [inner |-> inner, buf |-> [i \in 1..cap |-> g], pos |-> 0]

\* a faulty variant: the buffer is written out even when it is empty
flush_buf_always(w) ==
    [w EXCEPT !.inner = Io_write(w.inner, slice_to(w.buf, w.pos)), !.pos = 0]

\* a faulty variant: the buffer is reset without being written out
flush_buf_discards(w) == [w EXCEPT !.pos = 0]

flush_buf(w) ==
    IF w.pos # 0
    THEN [w EXCEPT !.inner = Io_write(w.inner, slice_to(w.buf, w.pos)),
                   !.pos = 0]
    ELSE w

\* a faulty variant: a slice longer than the buffer goes to the sink before
\* the bytes that are pending
BufferedWriter_write_unordered(w, buf) ==
    IF Len(buf) > Len(w.buf)
    THEN [w EXCEPT !.inner = Io_write(w.inner, buf)]
    ELSE LET w1 == IF w.pos + Len(buf) > Len(w.buf) THEN flush_buf(w) ELSE w
         IN  [w1 EXCEPT !.buf = copy_memory(w1.buf, w1.pos, buf, Len(buf)),
                        !.pos = @ + Len(buf)]

\* a faulty variant: the buffer is flushed as soon as it is full
BufferedWriter_write_eager(w, buf) ==
    LET w1 == IF w.pos + Len(buf) > Len(w.buf) THEN flush_buf(w) ELSE w
        w2 == IF Len(buf) > Len(w1.buf)
              THEN [w1 EXCEPT !.inner = Io_write(w1.inner, buf)]
              ELSE [w1 EXCEPT
                      !.buf = copy_memory(w1.buf, w1.pos, buf, Len(buf)),
                      !.pos = @ + Len(buf)]
    IN  IF w2.pos = Len(w2.buf) THEN flush_buf(w2) ELSE w2

\* a faulty variant: a slice exactly as long as the buffer bypasses it
BufferedWriter_write_ge(w, buf) ==
    LET w1 == IF w.pos + Len(buf) > Len(w.buf) THEN flush_buf(w) ELSE w
    IN  IF Len(buf) >= Len(w1.buf)
        THEN [w1 EXCEPT !.inner = Io_write(w1.inner, buf)]
        ELSE [w1 EXCEPT !.buf = copy_memory(w1.buf, w1.pos, buf, Len(buf)),
                        !.pos = @ + Len(buf)]

BufferedWriter_write(w, buf) ==
    LET w1 == IF w.pos + Len(buf) > Len(w.buf) THEN flush_buf(w) ELSE w
    IN  IF Len(buf) > Len(w1.buf)
        THEN [w1 EXCEPT !.inner = Io_write(w1.inner, buf)]
        ELSE [w1 EXCEPT !.buf = copy_memory(w1.buf, w1.pos, buf, Len(buf)),
                        !.pos = @ + Len(buf)]

\* a faulty variant: the flush is not passed on to the sink
BufferedWriter_flush_noprop(w) == flush_buf(w)

BufferedWriter_flush(w) ==
    LET w1 == flush_buf(w)
    IN  [w1 EXCEPT !.inner = Io_flush(w1.inner)]

\* a faulty variant: the sink is handed back without flushing
BufferedWriter_inner_noflush(w) == w.inner

\* Decorator::inner(mut self) -> W
BufferedWriter_inner(w) == flush_buf(w).inner

(***************************************************************************)
(* LineBufferedWriter<W> { inner: BufferedWriter<W> }                      *)
(***************************************************************************)
LineBufferedWriter_new(inner, g) ==
    [inner |-> BufferedWriter_with_capacity(LINE_CAPACITY, inner, g)]

\* buf.iter().position(|&b| b == x): the 0-based index of the first x, or -1
position(v, x) ==
    LET hits == {i \in 1..Len(v) : v[i] = x}
    IN  IF hits = {} THEN -1
        ELSE (CHOOSE i \in hits : \A j \in hits : i <= j) - 1

\* a faulty variant: the slice is cut at its first newline, not at its last
LineBufferedWriter_write_first(l, buf) ==
    LET i == position(buf, NEWLINE)
    IN  IF i >= 0
        THEN LET w1 == BufferedWriter_write(l.inner, slice_to(buf, i + 1))
                 w2 == BufferedWriter_flush(w1)
             IN  [l EXCEPT !.inner =
                     BufferedWriter_write(w2, slice_from(buf, i + 1))]
        ELSE [l EXCEPT !.inner = BufferedWriter_write(l.inner, buf)]

\* a faulty variant: the flush comes after the rest of the slice is written
LineBufferedWriter_write_flush_last(l, buf) ==
    LET i == rposition(buf, NEWLINE)
    IN  IF i >= 0
        THEN LET w1 == BufferedWriter_write(l.inner, slice_to(buf, i + 1))
                 w2 == BufferedWriter_write(w1, slice_from(buf, i + 1))
             IN  [l EXCEPT !.inner = BufferedWriter_flush(w2)]
        ELSE [l EXCEPT !.inner = BufferedWriter_write(l.inner, buf)]

LineBufferedWriter_write(l, buf) ==
    LET i == rposition(buf, NEWLINE)
    IN  IF i >= 0
        THEN LET w1 == BufferedWriter_write(l.inner, slice_to(buf, i + 1))
                 w2 == BufferedWriter_flush(w1)
             IN  [l EXCEPT !.inner =
                     BufferedWriter_write(w2, slice_from(buf, i + 1))]
        ELSE [l EXCEPT !.inner = BufferedWriter_write(l.inner, buf)]

LineBufferedWriter_flush(l) == [l EXCEPT !.inner = BufferedWriter_flush(l.inner)]

LineBufferedWriter_inner(l) == BufferedWriter_inner(l.inner)

(***************************************************************************)
(* InternalBufferedWriter<W>(BufferedWriter<W>): a newtype, so the value   *)
(* is the BufferedWriter record itself.  Its Reader impl goes to the       *)
(* BufferedWriter's inner field.                                           *)
(***************************************************************************)
\* a Reader impl that pushes the pending output to the stream before it
\* reads from it
InternalBufferedWriter_read_flushing(w, n) ==
    LET w1  == flush_buf(w)
        fwd == Io_read(w1.inner, n)
    IN  [inner |-> [w1 EXCEPT !.inner = fwd.inner],
         ret   |-> fwd.ret,
         bytes |-> fwd.bytes]

InternalBufferedWriter_read(w, n) ==
    LET fwd == Io_read(w.inner, n)
    IN  [inner |-> [w EXCEPT !.inner = fwd.inner],
         ret   |-> fwd.ret,
         bytes |-> fwd.bytes]

InternalBufferedWriter_eof(w) == Io_eof(w.inner)

(***************************************************************************)
(* BufferedReader<R> { inner, buf, pos, cap }                              *)
(* R is a plain source, or the InternalBufferedWriter of a BufferedStream: *)
(* self.inner.read / self.inner.eof resolve on the type of inner.          *)
(***************************************************************************)
IsWriter(x) == "buf" \in DOMAIN x

inner_read(inner, n) ==
    IF IsWriter(inner) THEN InternalBufferedWriter_read(inner, n)
    ELSE Io_read(inner, n)

inner_eof(inner) ==
    IF IsWriter(inner) THEN InternalBufferedWriter_eof(inner)
    ELSE Io_eof(inner)

BufferedReader_with_capacity(cap, inner, g) ==
    [inner |-> inner, buf |-> [i \in 1..cap |-> g], pos |-> 0, cap |-> 0]

\* fill that reads the source on every call
fill_always(r) ==
    LET got == inner_read(r.inner, Len(r.buf))
        r0  == [r EXCEPT !.inner = got.inner,
                         !.buf = copy_memory(r.buf, 0, got.bytes,
                                             Len(got.bytes))]
        r1  == IF got.ret.some
               THEN [r0 EXCEPT !.pos = 0, !.cap = got.ret.val]
               ELSE r0
    IN  [self |-> r1, ret |-> slice(r1.buf, r1.pos, r1.cap)]

\* fill(&mut self) -> &[u8]: the reader after the call and the slice returned
fill(r) ==
    LET got == inner_read(r.inner, Len(r.buf))
        r1  == IF r.pos = r.cap
               THEN LET r0 == [r EXCEPT
                                 !.inner = got.inner,
                                 !.buf = copy_memory(r.buf, 0, got.bytes,
                                                     Len(got.bytes))]
                    IN  IF got.ret.some
                        THEN [r0 EXCEPT !.pos = 0, !.cap = got.ret.val]
                        ELSE r0
               ELSE r
    IN  [self |-> r1, ret |-> slice(r1.buf, r1.pos, r1.cap)]

\* consume without the assertion
consume_unchecked(r, amt) ==
    LET r1 == [r EXCEPT !.pos = uint_add(@, amt)]
    IN  [self |-> r1, ok |-> TRUE]

\* consume(&mut self, amt): the reader after the call, and whether the
\* assertion held
consume(r, amt) ==
    LET r1 == [r EXCEPT !.pos = uint_add(@, amt)]
    IN  [self |-> r1, ok |-> uint_le(r1.pos, r1.cap)]

\* read that hands over all the buffered bytes whatever the length of buf
BufferedReader_read_all(r, n) ==
    LET f == fill(r)
        available == f.ret
    IN  IF Len(available) = 0
        THEN [self |-> f.self, ret |-> None, bytes |-> <<>>]
        ELSE LET nread == Len(available)
             IN  [self  |-> [f.self EXCEPT !.pos = @ + nread],
                  ret   |-> Some(nread),
                  bytes |-> slice_to(available, nread)]

\* read(&mut self, buf) with buf.len() = n: the reader after the call, the
\* result and the bytes copied to the start of buf
BufferedReader_read(r, n) ==
    LET f == fill(r)
        available == f.ret
    IN  IF Len(available) = 0
        THEN [self |-> f.self, ret |-> None, bytes |-> <<>>]
        ELSE LET nread == Min(Len(available), n)
             IN  [self  |-> [f.self EXCEPT !.pos = @ + nread],
                  ret   |-> Some(nread),
                  bytes |-> slice_to(available, nread)]

\* eof() that asks the source only
BufferedReader_eof_source_only(r) == inner_eof(r.inner)

BufferedReader_eof(r) == r.pos = r.cap /\ inner_eof(r.inner)

\* inner(self) -> R: the wrapped source; the buffer and the unread bytes in
\* it go with the reader
BufferedReader_inner(r) == r.inner

(***************************************************************************)
(* BufferedStream<S> { inner: BufferedReader<InternalBufferedWriter<S>> }  *)
(***************************************************************************)
(***************************************************************************)
(* read_until(byte), the scan-for-delimiter operation every Buffer has: it *)
(* is built on fill and consume alone.  Repeatedly: fill; if the slice is  *)
(* empty, return what was accumulated (None if nothing was); if the slice  *)
(* holds the byte, accumulate and consume through it and return; else      *)
(* accumulate and consume the whole slice and go on.                       *)
(* The result is the reader after the call, whether Some was returned and  *)
(* the bytes returned.                                                     *)
(***************************************************************************)
RECURSIVE read_until_loop(_, _, _)
read_until_loop(r, byte, res) ==
    LET f == fill(r)
        available == f.ret
        i == position(available, byte)
    IN  IF Len(available) = 0
        THEN [self |-> f.self, some |-> res # <<>>, bytes |-> res]
        ELSE IF i >= 0
        THEN [self  |-> consume(f.self, i + 1).self,
              some  |-> TRUE,
              bytes |-> res \o slice_to(available, i + 1)]
        ELSE read_until_loop(consume(f.self, Len(available)).self, byte,
                             res \o available)

read_until(r, byte) == read_until_loop(r, byte, <<>>)

BufferedStream_with_capacities(reader_cap, writer_cap, inner, g) ==
    LET writer == BufferedWriter_with_capacity(writer_cap, inner, g)
        internal_writer == writer
        reader == BufferedReader_with_capacity(reader_cap, internal_writer, g)
    IN  [inner |-> reader]

BufferedStream_fill(s) ==
    LET fl == fill(s.inner)
    IN  [self |-> [s EXCEPT !.inner = fl.self], ret |-> fl.ret]

BufferedStream_consume(s, amt) ==
    LET cs == consume(s.inner, amt)
    IN  [self |-> [s EXCEPT !.inner = cs.self], ok |-> cs.ok]

BufferedStream_read(s, n) ==
    LET rd == BufferedReader_read(s.inner, n)
    IN  [self  |-> [s EXCEPT !.inner = rd.self],
         ret   |-> rd.ret,
         bytes |-> rd.bytes]

BufferedStream_eof(s) == BufferedReader_eof(s.inner)

BufferedStream_write(s, buf) ==
    [s EXCEPT !.inner =
        [s.inner EXCEPT !.inner = BufferedWriter_write(s.inner.inner, buf)]]

BufferedStream_flush(s) ==
    [s EXCEPT !.inner =
        [s.inner EXCEPT !.inner = BufferedWriter_flush(s.inner.inner)]]

BufferedStream_inner(s) == BufferedWriter_inner(s.inner.inner)

\* the concatenation of a sequence of slices
RECURSIVE Flatten(_)
Flatten(ss) ==
    IF ss = <<>> THEN <<>>
    ELSE Flatten(SubSeq(ss, 1, Len(ss) - 1)) \o ss[Len(ss)]

(***************************************************************************)
(* Inputs.                                                                 *)
(***************************************************************************)
\* what an uninitialised buffer cell may hold
GarbageBytes == {0, 255}

Capacities == 0..MaxCap

\* the bytes a source holds
SrcBytes == {0, 1}
Sources == UNION {[1..n -> SrcBytes] : n \in 0..MaxSrc}

\* the n bytes a caller writes next: as in test_buffered_writer the bytes
\* written are 0, 1, 2, ... so that every byte written is told from the others
NextBytes(n) == [i \in 1..n |-> (Len(Flatten(written)) + i - 1) % BYTE_MOD]

\* the bytes a duplex stream holds for reading: 100, 101, ...
StreamData == [i \in 1..MaxSrc |-> (100 + i - 1) % BYTE_MOD]

\* slices given to LineBufferedWriter::write: short slices over {0, '\n'},
\* slices of zero bytes as long as the capacity and longer, with and
\* without a newline in front
Pad(k) == [i \in 1..k |-> 0]
ShortChunks == UNION {[1..n -> {0, NEWLINE}] : n \in 0..MaxPre}
LongChunks == {Pad(LINE_CAPACITY), Pad(LINE_CAPACITY + 1),
               <<NEWLINE>> \o Pad(LINE_CAPACITY + 1)}
\* the slice test_line_buffer writes: two newlines and a tail
TestChunks == {<<0, NEWLINE, 1, NEWLINE, 2>>}
LineChunks == ShortChunks \cup LongChunks \cup TestChunks

\* bytes given to read_until: those a source may hold and one it never holds
Delimiters == SrcBytes \cup {9}

\* amounts given to consume: small ones and the largest uint
Amounts == (0..MaxDest) \cup {UINT_MAX}

\* the decorator o of the current kind with the read log of its source
\* cleared: the log then tells the reads made during the next call
ResetReads(o) ==
    CASE kind = "reader" -> [o EXCEPT !.inner.reads = <<>>]
      [] kind = "stream" -> [o EXCEPT !.inner.inner.inner.reads = <<>>]

(***************************************************************************)
(* The call made last: its name, the slice passed (arg) or the length of   *)
(* the destination or the amount (n), the receiver before the call (pre),  *)
(* the result (ret, flag), the bytes handed to the caller (out) and the    *)
(* name of the call made before it (before).                               *)
(***************************************************************************)
Call(op, arg, n, pre, ret, flag, out) ==
    [op |-> op, arg |-> arg, n |-> n, pre |-> pre, ret |-> ret,
     flag |-> flag, out |-> out, before |-> last.op]

New(o) ==
    [op |-> "new", arg |-> <<>>, n |-> 0, pre |-> o, ret |-> None,
     flag |-> FALSE, out |-> <<>>, before |-> "new"]

(***************************************************************************)
(* Initial states: one freshly constructed decorator.                      *)
(***************************************************************************)
InitCommon ==
    /\ life = "live"
    /\ written = <<>>
    /\ delivered = <<>>
    /\ last = New(obj)
    /\ nops = 0
    /\ tasks = <<>>
    /\ chans = <<>>

InitWriter ==
    /\ kind = "writer"
    /\ \E c \in Capacities, g \in GarbageBytes :
          obj = BufferedWriter_with_capacity(c, Io(<<>>), g)
    /\ InitCommon

InitLine ==
    /\ kind = "line"
    /\ \E g \in GarbageBytes : obj = LineBufferedWriter_new(Io(<<>>), g)
    /\ InitCommon

InitReader ==
    /\ kind = "reader"
    /\ \E c \in Capacities, S \in Sources, g \in GarbageBytes :
          obj = BufferedReader_with_capacity(c, Io(S), g)
    /\ InitCommon

InitStream ==
    /\ kind = "stream"
    /\ \E rc \in Capacities, wc \in Capacities :
          obj = BufferedStream_with_capacities(rc, wc, Io(StreamData), 255)
    /\ InitCommon

(***************************************************************************)
(* BufferedWriter: the calls a caller can make.                            *)
(***************************************************************************)
Write ==
    /\ kind = "writer" /\ life = "live" /\ nops < MaxOps
    /\ \E n \in 0..MaxLen :
          LET b == NextBytes(n) IN
          /\ obj' = BufferedWriter_write(obj, b)
          /\ written' = Append(written, b)
          /\ last' = Call("write", b, n, obj, None, FALSE, <<>>)
    /\ nops' = nops + 1
    /\ UNCHANGED <<tasks, chans, kind, life, delivered>>

Flush ==
    /\ kind = "writer" /\ life = "live" /\ nops < MaxOps
    /\ obj' = BufferedWriter_flush(obj)
    /\ last' = Call("flush", <<>>, 0, obj, None, FALSE, <<>>)
    /\ nops' = nops + 1
    /\ UNCHANGED <<tasks, chans, kind, life, written, delivered>>

\* inner(self): the writer is consumed, obj becomes the sink it returns
Inner ==
    /\ kind = "writer" /\ life = "live"
    /\ obj' = BufferedWriter_inner(obj)
    /\ life' = "taken"
    /\ last' = Call("inner", <<>>, 0, obj, None, FALSE, <<>>)
    /\ UNCHANGED <<tasks, chans, kind, written, delivered, nops>>

\* the writer goes out of scope: there is no Drop impl, nothing runs
Drop ==
    /\ kind \in {"writer", "line", "stream"} /\ life = "live"
    /\ life' = "dropped"
    /\ last' = Call("drop", <<>>, 0, obj, None, FALSE, <<>>)
    /\ UNCHANGED <<tasks, chans, kind, obj, written, delivered, nops>>

(***************************************************************************)
(* LineBufferedWriter                                                      *)
(***************************************************************************)
LineWrite ==
    /\ kind = "line" /\ life = "live" /\ nops < MaxLineOps
    /\ \E b \in LineChunks :
          /\ obj' = LineBufferedWriter_write(obj, b)
          /\ written' = Append(written, b)
          /\ last' = Call("write", b, Len(b), obj, None, FALSE, <<>>)
    /\ nops' = nops + 1
    /\ UNCHANGED <<tasks, chans, kind, life, delivered>>

LineFlush ==
    /\ kind = "line" /\ life = "live" /\ nops < MaxLineOps
    /\ obj' = LineBufferedWriter_flush(obj)
    /\ last' = Call("flush", <<>>, 0, obj, None, FALSE, <<>>)
    /\ nops' = nops + 1
    /\ UNCHANGED <<tasks, chans, kind, life, written, delivered>>

LineInner ==
    /\ kind = "line" /\ life = "live"
    /\ obj' = LineBufferedWriter_inner(obj)
    /\ life' = "taken"
    /\ last' = Call("inner", <<>>, 0, obj, None, FALSE, <<>>)
    /\ UNCHANGED <<tasks, chans, kind, written, delivered, nops>>

(***************************************************************************)
(* BufferedReader                                                          *)
(***************************************************************************)
Read ==
    /\ kind = "reader" /\ life = "live"
    /\ \E n \in 0..MaxDest, o \in {ResetReads(obj)} :
          \E res \in {BufferedReader_read(o, n)} :
          /\ obj' = res.self
          /\ delivered' = delivered \o res.bytes
          /\ last' = Call("read", <<>>, n, o, res.ret, FALSE, res.bytes)
    /\ UNCHANGED <<tasks, chans, kind, life, written, nops>>

Fill ==
    /\ kind = "reader" /\ life = "live"
    /\ \E o \in {ResetReads(obj)} :
          \E res \in {fill(o)} :
          /\ obj' = res.self
          /\ last' = Call("fill", <<>>, 0, o, None, FALSE, res.ret)
    /\ UNCHANGED <<tasks, chans, kind, life, written, delivered, nops>>

\* consume(amt): the bytes passed over count as handed to the caller, who
\* saw them in the slice fill returned; a failed assertion ends the task
Consume ==
    /\ kind = "reader" /\ life = "live"
    /\ \E amt \in Amounts, o \in {ResetReads(obj)} :
          \E res \in {consume(o, amt)} :
          /\ amt = UINT_MAX => nops < MaxHuge
          /\ nops' = IF amt = UINT_MAX THEN nops + 1 ELSE nops
          /\ obj' = res.self
          /\ life' = IF res.ok THEN "live" ELSE "aborted"
          /\ delivered' = IF res.ok
                          THEN delivered \o slice(o.buf, o.pos, o.pos + amt)
                          ELSE delivered
          /\ last' = Call("consume", <<>>, amt, o, None, res.ok, <<>>)
    /\ UNCHANGED <<tasks, chans, kind, written>>

Eof ==
    /\ kind = "reader" /\ life = "live"
    /\ \E o \in {ResetReads(obj)} :
          /\ obj' = o
          /\ last' = Call("eof", <<>>, 0, o, None, BufferedReader_eof(o), <<>>)
    /\ UNCHANGED <<tasks, chans, kind, life, written, delivered, nops>>

\* inner(self): the reader is consumed, obj becomes the source it returns
ReaderInner ==
    /\ kind = "reader" /\ life = "live"
    /\ \E o \in {ResetReads(obj)} :
          /\ obj' = BufferedReader_inner(o)
          /\ last' = Call("inner", <<>>, 0, o, None, FALSE, <<>>)
    /\ life' = "taken"
    /\ UNCHANGED <<tasks, chans, kind, written, delivered, nops>>

ReadUntil ==
    /\ kind = "reader" /\ life = "live"
    /\ \E byte \in Delimiters, o \in {ResetReads(obj)} :
          \E res \in {read_until(o, byte)} :
          /\ obj' = res.self
          /\ delivered' = delivered \o res.bytes
          /\ last' = Call("read_until", <<>>, byte, o, None, res.some,
                          res.bytes)
    /\ UNCHANGED <<tasks, chans, kind, life, written, nops>>

(***************************************************************************)
(* BufferedStream                                                          *)
(***************************************************************************)
StreamWrite ==
    /\ kind = "stream" /\ life = "live" /\ nops < MaxStreamOps
    /\ \E n \in 0..MaxLen, o \in {ResetReads(obj)} :
          LET b == NextBytes(n) IN
          /\ obj' = BufferedStream_write(o, b)
          /\ written' = Append(written, b)
          /\ last' = Call("write", b, n, o, None, FALSE, <<>>)
    /\ nops' = nops + 1
    /\ UNCHANGED <<tasks, chans, kind, life, delivered>>

StreamFlush ==
    /\ kind = "stream" /\ life = "live" /\ nops < MaxStreamOps
    /\ \E o \in {ResetReads(obj)} :
          /\ obj' = BufferedStream_flush(o)
          /\ last' = Call("flush", <<>>, 0, o, None, FALSE, <<>>)
    /\ nops' = nops + 1
    /\ UNCHANGED <<tasks, chans, kind, life, written, delivered>>

StreamInner ==
    /\ kind = "stream" /\ life = "live"
    /\ obj' = BufferedStream_inner(obj)
    /\ life' = "taken"
    /\ last' = Call("inner", <<>>, 0, obj, None, FALSE, <<>>)
    /\ UNCHANGED <<tasks, chans, kind, written, delivered, nops>>

StreamRead ==
    /\ kind = "stream" /\ life = "live" /\ nops < MaxStreamOps
    /\ \E n \in 0..MaxDest, o \in {ResetReads(obj)} :
          \E res \in {BufferedStream_read(o, n)} :
          /\ obj' = res.self
          /\ delivered' = delivered \o res.bytes
          /\ last' = Call("read", <<>>, n, o, res.ret, FALSE, res.bytes)
    /\ nops' = nops + 1
    /\ UNCHANGED <<tasks, chans, kind, life, written>>

StreamFill ==
    /\ kind = "stream" /\ life = "live" /\ nops < MaxStreamOps
    /\ \E o \in {ResetReads(obj)} :
          \E res \in {BufferedStream_fill(o)} :
          /\ obj' = res.self
          /\ last' = Call("fill", <<>>, 0, o, None, FALSE, res.ret)
    /\ nops' = nops + 1
    /\ UNCHANGED <<tasks, chans, kind, life, written, delivered>>

StreamConsume ==
    /\ kind = "stream" /\ life = "live" /\ nops < MaxStreamOps
    /\ \E amt \in Amounts, o \in {ResetReads(obj)} :
          \E res \in {BufferedStream_consume(o, amt)} :
          /\ obj' = res.self
          /\ life' = IF res.ok THEN "live" ELSE "aborted"
          /\ delivered' = IF res.ok
                          THEN delivered \o slice(o.inner.buf, o.inner.pos,
                                                  o.inner.pos + amt)
                          ELSE delivered
          /\ last' = Call("consume", <<>>, amt, o, None, res.ok, <<>>)
    /\ nops' = nops + 1
    /\ UNCHANGED <<tasks, chans, kind, written>>

StreamEof ==
    /\ kind = "stream" /\ life = "live" /\ nops < MaxStreamOps
    /\ \E o \in {ResetReads(obj)} :
          /\ obj' = o
          /\ last' = Call("eof", <<>>, 0, o, None, BufferedStream_eof(o), <<>>)
    /\ nops' = nops + 1
    /\ UNCHANGED <<tasks, chans, kind, life, written, delivered>>

(***************************************************************************)
(* Specifications: one per decorator, and all of them together.            *)
(***************************************************************************)
NextWriter == Write \/ Flush \/ Inner \/ Drop

NextLine == LineWrite \/ LineFlush \/ LineInner \/ Drop

NextReader == Read \/ Fill \/ Consume \/ Eof \/ ReadUntil \/ ReaderInner

NextStream ==
    \/ StreamWrite \/ StreamFlush \/ StreamInner \/ Drop
    \/ StreamRead \/ StreamFill \/ StreamConsume \/ StreamEof

InitSinks == InitWriter \/ InitLine \/ InitStream

NextSinks == NextWriter \/ NextLine \/ NextStream

Init == InitWriter \/ InitLine \/ InitReader \/ InitStream

Next == NextWriter \/ NextLine \/ NextReader \/ NextStream

SpecWriter == InitWriter /\ [][NextWriter]_vars

SpecLine == InitLine /\ [][NextLine]_vars

SpecReader == InitReader /\ [][NextReader]_vars

SpecStream == InitStream /\ [][NextStream]_vars

\* the two decorators that hold a cursor each: BufferedReader and
\* BufferedWriter
InitBuffers == InitReader \/ InitWriter

NextBuffers == NextReader \/ NextWriter

SpecBuffers == InitBuffers /\ [][NextBuffers]_vars

\* the three decorators that buffer output
SpecSinks == InitSinks /\ [][NextSinks]_vars

Spec == Init /\ [][Next]_vars

(***************************************************************************)
(* test/run-pass/task-comm-9.rs                                            *)
(*                                                                         *)
(* test00 makes a channel (p is its port, ch its sending end), spawns a    *)
(* task that runs test00_start(ch, number_of_messages), receives           *)
(* number_of_messages values from p, waits for the end of the task on the  *)
(* port future_result gave it and checks the sum.  The two tasks run       *)
(* concurrently: each action below is one step of one of them.             *)
(* A channel is a queue without bound: send appends and never blocks,      *)
(* recv takes the oldest message and blocks while there is none.           *)
(***************************************************************************)
\* c.send(msg)
send(q, msg) == Append(q, msg)

\* p.recv() can return
can_recv(q) == q # <<>>

\* the value test00_start sends in its round i: c.send(i + 0)
Message_next(i) == i + 1

Message(i) == i + 0

InitComm ==
    /\ kind = "tasks"
    /\ obj = <<>>
    /\ life = "live"
    /\ written = <<>>
    /\ delivered = <<>>
    /\ last = New(obj)
    /\ nops = 0
    /\ tasks = [parent |-> [pc |-> "spawn", i |-> 0, sum |-> 0],
                child  |-> [pc |-> "unborn", i |-> 0]]
    /\ chans = [p |-> <<>>, result |-> <<>>, sent |-> <<>>, rcvd |-> <<>>]

\* test00: builder.spawn(proc() { test00_start(&ch, number_of_messages) })
Spawn ==
    /\ kind = "tasks" /\ tasks.parent.pc = "spawn"
    /\ tasks' = [tasks EXCEPT !.parent.pc = "test", !.parent.i = 0,
                              !.child.pc = "test", !.child.i = 0]
    /\ UNCHANGED <<chans, bufvars>>

\* test00_start: while i < number_of_messages
ChildTest ==
    /\ kind = "tasks" /\ tasks.child.pc = "test"
    /\ tasks' = [tasks EXCEPT !.child.pc =
                    IF tasks.child.i < NumberOfMessages THEN "send"
                    ELSE "exit"]
    /\ UNCHANGED <<chans, bufvars>>

\* test00_start: c.send(i + 0); i += 1
ChildSend ==
    /\ kind = "tasks" /\ tasks.child.pc = "send"
    /\ chans' = [chans EXCEPT !.p = send(@, Message(tasks.child.i)),
                              !.sent = Append(@, Message(tasks.child.i))]
    /\ tasks' = [tasks EXCEPT !.child.i = @ + 1, !.child.pc = "test"]
    /\ UNCHANGED bufvars

\* test00_start returns: the task ends and its result goes to the port
\* that future_result gave the parent
ChildExit ==
    /\ kind = "tasks" /\ tasks.child.pc = "exit"
    /\ chans' = [chans EXCEPT !.result = send(@, "Success")]
    /\ tasks' = [tasks EXCEPT !.child.pc = "dead"]
    /\ UNCHANGED bufvars

\* test00: while i < number_of_messages
ParentTest ==
    /\ kind = "tasks" /\ tasks.parent.pc = "test"
    /\ tasks' = [tasks EXCEPT !.parent.pc =
                    IF tasks.parent.i < NumberOfMessages THEN "recv"
                    ELSE "wait"]
    /\ UNCHANGED <<chans, bufvars>>

\* test00: sum += p.recv(); i += 1
ParentRecv ==
    /\ kind = "tasks" /\ tasks.parent.pc = "recv"
    /\ can_recv(chans.p)
    /\ chans' = [chans EXCEPT !.p = Tail(@),
                              !.rcvd = Append(@, Head(chans.p))]
    /\ tasks' = [tasks EXCEPT !.parent.sum = @ + Head(chans.p),
                              !.parent.i = @ + 1,
                              !.parent.pc = "test"]
    /\ UNCHANGED bufvars

\* test00: result.recv()
ParentWait ==
    /\ kind = "tasks" /\ tasks.parent.pc = "wait"
    /\ can_recv(chans.result)
    /\ chans' = [chans EXCEPT !.result = Tail(@)]
    /\ tasks' = [tasks EXCEPT !.parent.pc = "assert"]
    /\ UNCHANGED bufvars

\* test00: assert_eq!(sum, number_of_messages * (number_of_messages - 1) / 2)
ParentAssert ==
    /\ kind = "tasks" /\ tasks.parent.pc = "assert"
    /\ tasks' = [tasks EXCEPT !.parent.pc =
                    IF tasks.parent.sum
                         = (NumberOfMessages * (NumberOfMessages - 1)) \div 2
                    THEN "done" ELSE "failed"]
    /\ UNCHANGED <<chans, bufvars>>

ChildStep == ChildTest \/ ChildSend \/ ChildExit

ParentStep ==
    Spawn \/ ParentTest \/ ParentRecv \/ ParentWait \/ ParentAssert

NextComm == ChildStep \/ ParentStep

\* the scheduler lets every task that can take a step take one in the end
SpecComm ==
    InitComm /\ [][NextComm]_vars /\ WF_vars(ChildStep) /\ WF_vars(ParentStep)

(***************************************************************************)
(* What the properties below observe.                                      *)
(***************************************************************************)
\* the BufferedWriter inside the decorator o of the current kind
WriterOf(o) ==
    CASE kind = "writer" -> o
      [] kind = "line"   -> o.inner
      [] kind = "stream" -> o.inner.inner

\* the BufferedReader inside the decorator o of the current kind
ReaderOf(o) ==
    CASE kind = "reader" -> o
      [] kind = "stream" -> o.inner

\* the wrapped source of the decorator o of the current kind
SourceOf(o) ==
    CASE kind = "reader" -> o.inner
      [] kind = "stream" -> o.inner.inner.inner

\* the wrapped source now (after inner(), obj is the source)
CurSource == IF life = "taken" THEN obj ELSE SourceOf(obj)

\* self.buf.len()
Capacity(x) == Len(x.buf)

\* the bytes a BufferedWriter holds back: self.buf.slice_to(self.pos)
Pending(w) == slice_to(w.buf, w.pos)

\* the wrapped sink now (after inner(), obj is the sink) and before the
\* last call
CurSink == IF life = "taken" THEN obj ELSE WriterOf(obj).inner
PreSink == WriterOf(last.pre).inner

\* the calls the sink received during the last call, and the writes among them
NewCalls == SubSeq(CurSink.calls, Len(PreSink.calls) + 1, Len(CurSink.calls))
IsWriteCall(c) == c.op = "write"
NewWrites == SelectSeq(NewCalls, IsWriteCall)
SinkWrite(bytes) == [op |-> "write", data |-> bytes]
SinkFlush == [op |-> "flush", data |-> <<>>]

\* all bytes passed to write so far, and those passed before the last write
Written == Flatten(written)
WrittenBefore == Flatten(SubSeq(written, 1, Len(written) - 1))

IsPrefix(a, b) == Len(a) <= Len(b) /\ SubSeq(b, 1, Len(a)) = a

(***************************************************************************)
(* C1.  BufferedWriter: after any sequence of write calls of any lengths,  *)
(* with flush calls anywhere among them, a flush() leaves the sink holding *)
(* exactly the concatenation of the slices written, in order.              *)
(***************************************************************************)
C1_FlushDeliversAll ==
    (kind = "writer" /\ last.op = "flush") =>
        /\ SinkBytes(obj.inner) = Written
        /\ obj.pos = 0

\* a flush after three writes, one of them longer than the buffer and one
\* that did not fit in the space left, with an earlier flush among them
C1_Witness ==
    /\ kind = "writer" /\ last.op = "flush"
    /\ Capacity(obj) > 0
    /\ Len(written) >= 3
    /\ \E i \in 1..Len(written) : Len(written[i]) > Capacity(obj)
    /\ \E i \in 1..Len(written) : Len(written[i]) \in 1..Capacity(obj)
    /\ Len(SelectSeq(obj.inner.calls, IsWriteCall)) >= 3
    /\ nops > Len(written) + 1

(***************************************************************************)
(* C2.  BufferedReader, for every capacity and every source S: the bytes   *)
(* handed to the caller are S in order; when read reports end-of-stream    *)
(* all of S has been handed over; eof() is true only when all of S has     *)
(* been handed over.                                                       *)
(***************************************************************************)
C2_ReadDeliversSource ==
    kind = "reader" =>
        /\ IsPrefix(delivered, CurSource.data)
        /\ (last.op = "read" /\ ~last.ret.some) => delivered = CurSource.data
        /\ (last.op = "eof" /\ last.flag) => delivered = CurSource.data

(***************************************************************************)
(* C3.  BufferedWriter with capacity 2 over an empty sink, the calls       *)
(* write([0,1]), write([2]), write([3]), flush().                          *)
(***************************************************************************)
\* the state after the first k writes of the scenario, no flush made yet
Scenario3(k) ==
    /\ kind = "writer" /\ life = "live"
    /\ Capacity(obj) = 2
    /\ written = SubSeq(<< <<0, 1>>, <<2>>, <<3>> >>, 1, k)
    /\ nops = k

\* the state after the flush that follows the three writes
Scenario3Flushed ==
    /\ kind = "writer" /\ life = "live"
    /\ Capacity(obj) = 2
    /\ written = << <<0, 1>>, <<2>>, <<3>> >>
    /\ nops = 4
    /\ last.op = "flush"

\* C3 as claimed: the sink is empty after each of the three writes, and
\* holds [0,1,2,3] after the flush
C3_SinkEmptyUntilFlush ==
    /\ \A k \in 1..3 : Scenario3(k) => SinkBytes(obj.inner) = <<>>
    /\ Scenario3Flushed => SinkBytes(obj.inner) = <<0, 1, 2, 3>>

\* C3 as amended: the sink is empty after write([0,1]); write([2]) does not
\* fit and pushes [0,1] to the sink; the sink still holds [0,1] after
\* write([3]) and holds [0,1,2,3] after the flush
C3_SinkAfterEachCall ==
    /\ Scenario3(1) => SinkBytes(obj.inner) = <<>>
    /\ Scenario3(2) => SinkBytes(obj.inner) = <<0, 1>>
    /\ Scenario3(3) => SinkBytes(obj.inner) = <<0, 1>>
    /\ Scenario3Flushed => SinkBytes(obj.inner) = <<0, 1, 2, 3>>

C3_Witness == Scenario3Flushed /\ last.before = "write"

(***************************************************************************)
(* C4.  BufferedWriter, LineBufferedWriter and BufferedStream: the sink    *)
(* that inner() returns has received every byte ever written through the   *)
(* wrapper, in order, whatever writes and flushes came before.             *)
(***************************************************************************)
C4_InnerFlushes ==
    (kind \in {"writer", "line", "stream"} /\ life = "taken") =>
        SinkBytes(obj) = Written

\* inner() taken from a BufferedStream that still held bytes written
\* through it
C4_Witness ==
    /\ kind = "stream" /\ life = "taken"
    /\ last.op = "inner"
    /\ WriterOf(last.pre).pos > 0
    /\ Len(written) >= 2

(***************************************************************************)
(* C5.  BufferedWriter: the sink receives a write only during a            *)
(* write(bytes) with pos + len(bytes) > capacity, a flush() or an inner(). *)
(* A write(bytes) with pos + len(bytes) <= capacity leaves the sink as it  *)
(* was, and dropping the writer makes no call on the sink and is the last  *)
(* thing that happens to it, so what is pending then never arrives.        *)
(***************************************************************************)
C5_SinkWrittenOnlyWhenForced ==
    kind = "writer" =>
        /\ NewWrites # <<>> =>
              \/ last.op = "write"
                 /\ last.pre.pos + Len(last.arg) > Capacity(last.pre)
              \/ last.op = "flush"
              \/ last.op = "inner"
        /\ (last.op = "write"
            /\ last.pre.pos + Len(last.arg) <= Capacity(last.pre)) =>
              CurSink = PreSink
        /\ last.op = "drop" => obj = last.pre
        /\ life = "dropped" => last.op = "drop"

\* a write that fits in the space left behind bytes already pending
C5_Witness ==
    /\ kind = "writer" /\ last.op = "write"
    /\ last.pre.pos > 0
    /\ Len(last.arg) > 0
    /\ last.pre.pos + Len(last.arg) <= Capacity(last.pre)

(***************************************************************************)
(* C8.  BufferedWriter.write(bytes) with len(bytes) > capacity: the sink   *)
(* receives one write of the pending bytes if there are any, then one      *)
(* write of bytes itself; the buffer is not written to and pos is 0.       *)
(* With len(bytes) <= capacity the sink receives at most one write, of the *)
(* pending bytes, and bytes is copied into the buffer.                     *)
(***************************************************************************)
C8_LargeWritePassesThrough ==
    (kind = "writer" /\ last.op = "write") =>
        LET pre == last.pre
            bytes == last.arg
        IN  IF Len(bytes) > Capacity(pre)
            THEN /\ NewCalls =
                      (IF pre.pos > 0 THEN <<SinkWrite(Pending(pre))>>
                       ELSE <<>>) \o <<SinkWrite(bytes)>>
                 /\ obj.buf = pre.buf
                 /\ obj.pos = 0
            ELSE /\ NewCalls =
                      (IF pre.pos + Len(bytes) > Capacity(pre)
                       THEN <<SinkWrite(Pending(pre))>> ELSE <<>>)
                 /\ Pending(obj) =
                      (IF pre.pos + Len(bytes) > Capacity(pre) THEN <<>>
                       ELSE Pending(pre)) \o bytes

\* a write longer than the buffer made while bytes were pending
C8_Witness ==
    /\ kind = "writer" /\ last.op = "write"
    /\ last.pre.pos > 0
    /\ Len(last.arg) > Capacity(last.pre)

(***************************************************************************)
(* C9.  BufferedWriter.flush() called twice in a row: the second call      *)
(* makes no write on the sink and leaves the bytes the sink has received   *)
(* and the writer's pos (0) as they were.                                  *)
(***************************************************************************)
C9_SecondFlushWritesNothing ==
    (kind = "writer" /\ last.op = "flush" /\ last.before = "flush") =>
        /\ NewWrites = <<>>
        /\ SinkBytes(CurSink) = SinkBytes(PreSink)
        /\ last.pre.pos = 0
        /\ obj.pos = 0

\* two flushes in a row after bytes were written
C9_Witness ==
    /\ kind = "writer" /\ last.op = "flush" /\ last.before = "flush"
    /\ Len(Written) > 0
    /\ Capacity(obj) > 0

(***************************************************************************)
(* C10.  BufferedWriter.flush() called when nothing is pending (pos = 0).  *)
(***************************************************************************)
\* C10 as claimed: the call makes no call at all on the sink and changes
\* nothing in the writer
C10_EmptyFlushNoSinkCall ==
    (kind = "writer" /\ last.op = "flush" /\ last.pre.pos = 0) =>
        /\ NewCalls = <<>>
        /\ obj = last.pre

\* C10 as amended: the call makes no write on the sink and changes neither
\* buf nor pos, but it does pass one flush on to the sink
C10_EmptyFlushOnlyPropagates ==
    (kind = "writer" /\ last.op = "flush" /\ last.pre.pos = 0) =>
        /\ NewCalls = <<SinkFlush>>
        /\ obj.buf = last.pre.buf
        /\ obj.pos = last.pre.pos

\* a flush of a writer that holds nothing, after bytes went through it
C10_Witness ==
    /\ kind = "writer" /\ last.op = "flush" /\ last.pre.pos = 0
    /\ Len(Written) > 0

(***************************************************************************)
(* C6.  LineBufferedWriter: when write(bytes) returns and bytes holds a    *)
(* newline, the last at index i, the sink has received all bytes of the    *)
(* earlier writes followed by bytes[0..=i].                                *)
(***************************************************************************)
C6_LineFlushedThroughLastNewline ==
    (kind = "line" /\ last.op = "write" /\ rposition(last.arg, NEWLINE) >= 0) =>
        IsPrefix(WrittenBefore
                   \o slice_to(last.arg, rposition(last.arg, NEWLINE) + 1),
                 SinkBytes(CurSink))

\* a write holding two newlines and a tail, made after an earlier write
\* that is still pending
C6_Witness ==
    /\ kind = "line" /\ last.op = "write"
    /\ rposition(last.arg, NEWLINE) > position(last.arg, NEWLINE)
    /\ rposition(last.arg, NEWLINE) + 1 < Len(last.arg)
    /\ WriterOf(last.pre).pos > 0

(***************************************************************************)
(* C7.  LineBufferedWriter: what a write leaves in the buffer.             *)
(***************************************************************************)
\* C7 as claimed: the bytes after the last newline of a write, and a whole
\* slice without a newline, stay in the buffer: a write without a newline
\* leaves the sink as it was, and a write with one leaves the sink holding
\* the earlier writes and the slice up to its last newline, no more
C7_TailStaysBuffered ==
    (kind = "line" /\ last.op = "write") =>
        LET i == rposition(last.arg, NEWLINE)
        IN  IF i >= 0
            THEN SinkBytes(CurSink) = WrittenBefore \o slice_to(last.arg, i + 1)
            ELSE SinkBytes(CurSink) = SinkBytes(PreSink)

\* C7 as amended: the same, unless the capacity of the inner BufferedWriter
\* forces bytes out: a tail, or a slice without a newline, longer than the
\* capacity goes straight to the sink, and a slice without a newline that
\* does not fit in the space left (pos + len > capacity) first pushes the
\* bytes pending from earlier writes to the sink
C7_TailStaysBufferedUpToCapacity ==
    (kind = "line" /\ last.op = "write") =>
        LET i == rposition(last.arg, NEWLINE)
            pre == WriterOf(last.pre)
            tail == slice_from(last.arg, i + 1)
        IN  IF i >= 0
            THEN /\ SinkBytes(CurSink) =
                       WrittenBefore \o slice_to(last.arg, i + 1)
                       \o (IF Len(tail) > Capacity(pre) THEN tail ELSE <<>>)
                 /\ Pending(WriterOf(obj)) =
                       (IF Len(tail) > Capacity(pre) THEN <<>> ELSE tail)
            ELSE /\ SinkBytes(CurSink) =
                       SinkBytes(PreSink)
                       \o (IF pre.pos + Len(tail) > Capacity(pre)
                           THEN Pending(pre) ELSE <<>>)
                       \o (IF Len(tail) > Capacity(pre) THEN tail ELSE <<>>)
                 /\ Pending(WriterOf(obj)) =
                       (IF pre.pos + Len(tail) > Capacity(pre) THEN <<>>
                        ELSE Pending(pre))
                       \o (IF Len(tail) > Capacity(pre) THEN <<>> ELSE tail)

\* a write without a newline that does not fit behind the bytes pending
C7_Witness ==
    /\ kind = "line" /\ last.op = "write"
    /\ rposition(last.arg, NEWLINE) < 0
    /\ WriterOf(last.pre).pos > 0
    /\ Len(last.arg) <= Capacity(WriterOf(last.pre))
    /\ WriterOf(last.pre).pos + Len(last.arg) > Capacity(WriterOf(last.pre))

(***************************************************************************)
(* BufferedReader and BufferedStream: what the properties below observe.   *)
(***************************************************************************)
\* the source has produced all its bytes
Exhausted(io) == io.rpos = Len(io.data)

\* the unread window buf[pos..cap] of a BufferedReader
Window(r) == slice(r.buf, r.pos, r.cap)

\* C11: eof() on a BufferedReader returns true exactly when the buffer holds
\* no unread byte (pos = cap) and the source has produced all its bytes; with
\* pos < cap it returns false whatever the source says; the call changes
\* neither pos, cap nor the position of the source, and reads nothing.
C11_EofExact ==
    (kind = "reader" /\ last.op = "eof") =>
        LET r == last.pre IN
        /\ last.flag = (r.pos = r.cap /\ Exhausted(r.inner))
        /\ (r.pos < r.cap => ~last.flag)
        /\ obj.pos = r.pos /\ obj.cap = r.cap /\ obj.buf = r.buf
        /\ obj.inner.rpos = r.inner.rpos
        /\ obj.inner.reads = <<>>

\* eof() is called while the source is exhausted and a byte is still unread
\* in the buffer: the answer is false
C11_Witness ==
    /\ kind = "reader" /\ last.op = "eof"
    /\ last.pre.pos < last.pre.cap
    /\ Exhausted(last.pre.inner)
    /\ ~last.flag

\* the unread bytes a BufferedReader r holds once it has refilled if it had
\* to: its window if that is not empty, else the next bytes of the source,
\* as many as the buffer takes
Refilled(r) ==
    IF r.pos < r.cap THEN Window(r)
    ELSE slice(r.inner.data, r.inner.rpos,
               Min(r.inner.rpos + Capacity(r), Len(r.inner.data)))

\* C12: read(dest) on a BufferedReader is a short read.  The source is read
\* at most once per call, and not at all when pos < cap.  If the buffer
\* holds no unread byte after the possible refill the call returns None;
\* otherwise it returns n = min(cap - pos, len(dest)), has copied the n bytes
\* buf[pos..pos+n] to dest and has advanced pos by n, even when dest is
\* longer and the source holds more.
C12_ShortRead ==
    (kind = "reader" /\ last.op = "read") =>
        LET r == last.pre
            avail == Refilled(r)
            n == Min(Len(avail), last.n)
        IN  /\ Len(obj.inner.reads) <= 1
            /\ r.pos < r.cap => obj.inner.reads = <<>>
            /\ avail = <<>> => last.ret = None /\ last.out = <<>>
            /\ avail # <<>> =>
                  /\ last.ret = Some(n)
                  /\ last.out = SubSeq(avail, 1, n)
                  /\ last.out = slice(obj.buf, obj.pos - n, obj.pos)
                  /\ obj.pos = (IF r.pos < r.cap THEN r.pos ELSE 0) + n
                  /\ obj.cap - obj.pos = Len(avail) - n

\* a read that had to refill (one source read), got fewer bytes than dest
\* takes although the source holds more, and returned them
C12_Witness ==
    /\ kind = "reader" /\ last.op = "read"
    /\ last.pre.pos = last.pre.cap
    /\ Len(obj.inner.reads) = 1
    /\ last.ret.some /\ last.ret.val > 0 /\ last.ret.val < last.n
    /\ ~Exhausted(obj.inner)

\* C13: fill() on a BufferedReader reads the source only when pos = cap, and
\* then exactly once, asking for the whole capacity; when pos < cap it reads
\* nothing and leaves pos, cap and the buffer alone.  Either way it returns
\* exactly the unread window buf[pos..cap].  When the refill yields no data
\* pos and cap are unchanged and the slice returned is empty.
C13_FillRefillsOnlyWhenEmpty ==
    (kind = "reader" /\ last.op = "fill") =>
        LET r == last.pre IN
        /\ r.pos = r.cap => obj.inner.reads = <<Capacity(r)>>
        /\ r.pos < r.cap =>
              /\ obj.inner.reads = <<>>
              /\ obj.pos = r.pos /\ obj.cap = r.cap /\ obj.buf = r.buf
        /\ last.out = Window(obj)
        /\ last.out = Refilled(r)
        /\ (r.pos = r.cap /\ Refilled(r) = <<>>) =>
              /\ obj.pos = r.pos /\ obj.cap = r.cap
              /\ last.out = <<>>

\* fill() is called with every buffered byte read (pos = cap > 0) and the
\* source exhausted: one read of the source, pos and cap stay, nothing is
\* returned
C13_Witness ==
    /\ kind = "reader" /\ last.op = "fill"
    /\ last.pre.pos = last.pre.cap /\ last.pre.pos > 0
    /\ Exhausted(last.pre.inner)
    /\ obj.inner.reads = <<Capacity(obj)>>
    /\ obj.pos = last.pre.pos /\ obj.cap = last.pre.cap
    /\ last.out = <<>>

\* C14: consume(amt) on a BufferedReader: when amt <= cap - pos it advances
\* pos by exactly amt and changes nothing else; when amt > cap - pos the call
\* ends the task with an assertion failure instead of returning.
C14_ConsumeChecked ==
    (kind = "reader" /\ last.op = "consume") =>
        LET r == last.pre
            amt == last.n
        IN  IF uint_le(amt, r.cap - r.pos)
            THEN /\ life = "live"
                 /\ obj = [r EXCEPT !.pos = @ + amt]
            ELSE life = "aborted"

\* C14, for the amounts that do not wrap pos + amt around
C14_ConsumeCheckedSmall ==
    (kind = "reader" /\ last.op = "consume" /\ last.n >= 0) =>
        C14_ConsumeChecked

\* C17: in every state of a BufferedReader whose task has not been ended by
\* a failed assertion, 0 <= pos <= cap <= capacity; in every state of a
\* BufferedWriter, 0 <= pos <= capacity.  (The same holds for the reader and
\* the writer inside a BufferedStream or a LineBufferedWriter.)
C17_CursorsInRange ==
    /\ (kind \in {"reader", "stream"} /\ life = "live") =>
          LET r == ReaderOf(obj) IN
          0 <= r.pos /\ r.pos <= r.cap /\ r.cap <= Capacity(r)
    /\ (kind \in {"writer", "line", "stream"} /\ life # "taken") =>
          LET w == WriterOf(obj) IN
          0 <= w.pos /\ w.pos <= Capacity(w)

\* a consume that passed the assertion and brought pos up to cap, with the
\* buffer full
C17_Witness ==
    /\ kind = "reader" /\ life = "live"
    /\ last.op = "consume" /\ last.flag /\ last.n > 0
    /\ obj.pos = obj.cap /\ obj.cap = Capacity(obj)

\* C18: in every state of a BufferedWriter the bytes the sink has received,
\* followed by the pending bytes buf[0..pos], are the bytes written so far,
\* in order: none lost, none twice, none out of order.  (After inner() the
\* writer is gone and nothing is pending.)
C18_WriterConservation ==
    kind = "writer" =>
        SinkBytes(CurSink)
            \o (IF life = "taken" THEN <<>> ELSE Pending(obj)) = Written

\* a writer with bytes in the sink and bytes pending, after a write that
\* pushed the earlier bytes out
C18_Witness ==
    /\ kind = "writer" /\ life = "live"
    /\ last.op = "write"
    /\ SinkBytes(CurSink) # <<>>
    /\ Pending(obj) # <<>>
    /\ Len(NewCalls) > 0

\* C19: in every state of a live BufferedReader over a source holding S, the
\* bytes delivered to the caller (by read or consume), followed by the
\* unread window buf[pos..cap], followed by the bytes the source has not
\* produced yet, are S: buffering loses, duplicates and reorders nothing.
C19_ReaderConservation ==
    (kind = "reader" /\ life = "live") =>
        delivered \o Window(obj) \o slice_from(obj.inner.data, obj.inner.rpos)
            = obj.inner.data

\* C19, as long as no consume call was given uint::max_value
C19_ReaderConservationNoWrap ==
    nops = 0 => C19_ReaderConservation

\* C16: in a BufferedStream the read side and the write side are
\* independent.  read, fill, consume and eof never change the write buffer
\* or the write pos and never cause a write to or a flush of the duplex
\* object; a refill reads the duplex object directly, once, for the whole
\* read capacity.  write and flush never change the read buffer, pos or cap
\* and never read from the duplex object.
C16_StreamSidesIndependent ==
    kind = "stream" =>
        LET r0 == ReaderOf(last.pre)
            r1 == ReaderOf(obj)
            w0 == WriterOf(last.pre)
            w1 == WriterOf(obj)
        IN  /\ last.op \in {"read", "fill", "consume", "eof"} =>
                  /\ w1.buf = w0.buf /\ w1.pos = w0.pos
                  /\ w1.inner.calls = w0.inner.calls
            /\ (last.op \in {"read", "fill"} /\ r0.pos = r0.cap) =>
                  w1.inner.reads = <<Capacity(r0)>>
            /\ last.op \in {"write", "flush"} =>
                  /\ r1.buf = r0.buf /\ r1.pos = r0.pos /\ r1.cap = r0.cap
                  /\ w1.inner.reads = <<>>
                  /\ w1.inner.rpos = w0.inner.rpos

\* a read that refilled from the duplex object right after a write whose
\* bytes are still pending in the write buffer
C16_Witness ==
    /\ kind = "stream" /\ life = "live"
    /\ last.op = "read" /\ last.before = "write"
    /\ last.ret.some /\ last.ret.val > 0
    /\ SourceOf(obj).reads # <<>>
    /\ Pending(WriterOf(obj)) # <<>>

\* the bytes ahead of a BufferedReader r: its unread window, then what the
\* source has not produced yet
Ahead(r) == Window(r) \o slice_from(r.inner.data, r.inner.rpos)

\* C15: read_until(delim) on a BufferedReader returns the bytes from the
\* current position of the stream up to and including the first delim, even
\* when they span several refills of the buffer; when the stream ends first
\* it returns the bytes up to the end if there is at least one, and None if
\* there is none.  So the results of successive calls concatenate to the
\* source: when None is returned every byte of the source has been
\* delivered, each exactly once.
C15_ReadUntilRecord ==
    (kind = "reader" /\ last.op = "read_until") =>
        LET ahead == Ahead(last.pre)
            i == position(ahead, last.n)
        IN  /\ last.flag = (ahead # <<>>)
            /\ last.out = IF i >= 0 THEN slice_to(ahead, i + 1) ELSE ahead
            /\ Ahead(obj) = slice_from(ahead, Len(last.out))
            /\ ~last.flag => delivered = obj.inner.data

\* C15, for the readers with a capacity of at least one byte on which no
\* consume call was given uint::max_value
C15_ReadUntilRecordFromOne ==
    (kind = "reader" /\ life = "live" /\ Capacity(obj) >= 1 /\ nops = 0) =>
        C15_ReadUntilRecord

\* the integers 0 .. n-1 in order
Upto(n) == [k \in 1..n |-> k - 1]

\* every message sent so far was received once or is in flight, in the
\* order of sending; the child sends 0, 1, 2, ..; once the receive loop is
\* over the parent holds all of 0 .. number_of_messages - 1 and their sum;
\* the final assertion does not fail
MessagesOnce ==
    /\ chans.sent = Upto(Len(chans.sent))
    /\ Len(chans.sent) <= NumberOfMessages
    /\ chans.sent = chans.rcvd \o chans.p
    /\ tasks.parent.i = Len(chans.rcvd)
    /\ tasks.parent.pc # "failed"
    /\ tasks.parent.pc \in {"wait", "assert", "done"} =>
          /\ chans.rcvd = Upto(NumberOfMessages)
          /\ chans.p = <<>>
          /\ tasks.parent.sum
                = (NumberOfMessages * (NumberOfMessages - 1)) \div 2
    /\ tasks.parent.pc \in {"assert", "done"} => tasks.child.pc = "dead"

\* C20: task-comm-9.  The spawned task sends 0 .. number_of_messages - 1 (10
\* messages) while the parent receives number_of_messages values.  Under
\* every interleaving of the two tasks each message sent is received exactly
\* once, the receive loop and the wait for the end of the child both
\* terminate, and the final sum is
\* number_of_messages * (number_of_messages - 1) / 2.
C20_TaskComm9 == []MessagesOnce /\ <>(tasks.parent.pc = "done")

\* the test has run to its end: ten messages received, the child dead, the
\* sum 45 asserted
C20_Witness ==
    /\ kind = "tasks"
    /\ tasks.parent.pc = "done" /\ tasks.child.pc = "dead"
    /\ Len(chans.rcvd) = NumberOfMessages
    /\ tasks.parent.sum = 45

=============================================================================
